---------------------------- MODULE Spec2Model ----------------------------
(***************************************************************************)
(* A model of converter/converter.py: the DataProductDefinition            *)
(* constructor, export_openapi_spec and convert_data_product_definitions   *)
(* with its two subprocess helpers.                                        *)
(*                                                                         *)
(* Python strings that the code inspects character by character (the       *)
(* definition name, the route path, the operationId) are sequences of      *)
(* one-character strings.  Paths are sequences of tokens so that pathlib's *)
(* component and suffix rules can be applied to them.  A JSON file is the  *)
(* sequence of its (key, value) members in the order they are written; a   *)
(* Python dict is a function from keys to values.                          *)
(***************************************************************************)
EXTENDS Integers, Sequences, FiniteSets, TLC

VARIABLES
    modules,           \* source tree: artifact path -> what importing it gives
    files,             \* destination tree: out_file -> file on disk
    untracked,         \* out_files that `git status --short` reports as "??"
    pending,           \* artifacts src.glob has not yet yielded in this run
    should_fail_hook,  \* the local variable of convert_data_product_definitions
    pc,                \* "idle" | "running" | "returned" | "raised"
    result,            \* the returned boolean, or the exception that was raised
    outcome,           \* this run: artifact -> branch taken by the loop body
    hooked,            \* this run: <<artifact, how pre-commit ended>> per call
    queried,           \* this run: artifacts git status was invoked for
    run,               \* number of the current run
    clean_start,       \* this run started on a fully published, tracked set
    published_earlier, \* an earlier run wrote a destination file
    kwargs,            \* synthesis: arguments given to DataProductDefinition()
    artifact,          \* synthesis: the path of the artifact that is loaded
    definition,        \* synthesis: the DataProductDefinition object
    openapi,           \* synthesis: the document export_openapi_spec returned
    phase              \* synthesis: "new" | "constructed" | "named" | "exported"

pipeline_vars ==
    <<modules, files, untracked, pending, should_fail_hook, pc, result,
      outcome, hooked, queried, run, clean_start, published_earlier>>

synth_vars == <<kwargs, artifact, definition, openapi, phase>>

vars == <<pipeline_vars, synth_vars>>

-----------------------------------------------------------------------------
(* Bounds of the model.                                                    *)

\* Longest artifact path, in tokens, that synthesis is checked on.
MaxPathLen == 3

\* Largest number of artifacts under the source root.
MaxArtifacts == 2

\* Number of consecutive runs of convert_data_product_definitions.
MaxRuns == 2

-----------------------------------------------------------------------------
(* Python values.                                                          *)

\* A Python str is a sequence of characters.  A literal the code never looks
\* into is kept as a single element.  None and Ellipsis are values that no str
\* equals.
None == <<"<None>">>

Ellipsis == <<"<...>">>

EmptyStr == <<>>

\* Python truthiness of an Optional[str].
Falsy(x) == x \in {None, EmptyStr}

Last(s) == s[Len(s)]

Range(s) == {s[i] : i \in 1..Len(s)}

\* The characters of a path token.
TokenChars(t) ==
    CASE t = "a"     -> <<"a">>
      [] t = "/"     -> <<"/">>
      [] t = "_"     -> <<"_">>
      [] t = "post"  -> <<"p", "o", "s", "t">>
      [] t = ".py"   -> <<".", "p", "y">>
      [] t = ".json" -> <<".", "j", "s", "o", "n">>

RECURSIVE Chars(_)
Chars(tokens) ==
    IF tokens = <<>> THEN <<>>
    ELSE TokenChars(Head(tokens)) \o Chars(Tail(tokens))

\* str.removesuffix: one trailing occurrence is removed, if there is one.
removesuffix(s, suffix) ==
    IF Len(suffix) > 0 /\ Len(s) >= Len(suffix)
       /\ SubSeq(s, Len(s) - Len(suffix) + 1, Len(s)) = suffix
    THEN SubSeq(s, 1, Len(s) - Len(suffix))
    ELSE s

endswith(s, suffix) ==
    /\ Len(s) >= Len(suffix)
    /\ SubSeq(s, Len(s) - Len(suffix) + 1, Len(s)) = suffix

\* re.sub(r"\W", "_", s): every character outside [A-Za-z0-9_] becomes "_".
WordChars == {"a", "p", "o", "s", "t", "y", "j", "n", "r", "e", "q", "u", "_"}

sanitize(s) == [i \in 1..Len(s) |-> IF s[i] \in WordChars THEN s[i] ELSE "_"]

-----------------------------------------------------------------------------
(* pathlib, on paths relative to the source root (p.relative_to(src)).     *)

PathTokens == {"a", "/", "_", "post", ".py"}

\* Index of the first token of the final path component.
NameStart(p) ==
    LET seps == {i \in 1..Len(p) : p[i] = "/"}
    IN  IF seps = {} THEN 1 ELSE (CHOOSE i \in seps : \A j \in seps : j <= i) + 1

\* PurePath.suffix: the final component from its last dot on, unless that dot
\* is the component's first character.
suffix(p) ==
    IF Len(p) > NameStart(p) /\ Last(p) \in {".py", ".json"}
    THEN <<Last(p)>>
    ELSE <<>>

\* PurePath.with_suffix(ext): ext is <<>> or a one-token extension.
with_suffix(p, ext) == SubSeq(p, 1, Len(p) - Len(suffix(p))) \o ext

as_posix(p) == Chars(p)

\* A relative path that src.glob("**/*.py") can yield.
IsArtifactPath(p) ==
    /\ Len(p) >= 1
    /\ Last(p) = ".py"
    /\ p[1] # "/"
    /\ \A i \in 1..(Len(p) - 1) : ~(p[i] = "/" /\ p[i + 1] = "/")

RECURSIVE SeqsUpTo(_, _)
SeqsUpTo(S, n) ==
    IF n = 0 THEN {<<>>}
    ELSE LET shorter == SeqsUpTo(S, n - 1)
         IN  shorter \cup {Append(s, x) : s \in shorter, x \in S}

ArtifactPaths == {p \in SeqsUpTo(PathTokens, MaxPathLen) : IsArtifactPath(p)}

-----------------------------------------------------------------------------
(* class DataProductDefinition                                             *)

\* Arguments a definition module may pass to DataProductDefinition().
KwargsSpace ==
    [summary : {<<"Foo">>, EmptyStr},
     description : {None, <<"Desc">>},
     route_description : {None, <<"RouteDesc">>},
     route_summary : {None, <<"RouteSum">>},
     requires_authorization : BOOLEAN,
     requires_consent : BOOLEAN]

\* __init__: pydantic fills the fields, then the summary is propagated.
DataProductDefinition(kw) ==
    LET d == [description |-> kw.description,
              name |-> None,
              request |-> <<"Request">>,
              response |-> <<"Response">>,
              route_description |-> kw.route_description,
              route_summary |-> kw.route_summary,
              summary |-> kw.summary,
              requires_authorization |-> kw.requires_authorization,
              requires_consent |-> kw.requires_consent]
    IN  IF ~Falsy(d.summary)
        THEN [d EXCEPT
                !.route_description = IF Falsy(@) THEN d.summary ELSE @,
                !.description = IF Falsy(@) THEN d.summary ELSE @]
        ELSE d

\* The loader's part of the loop body: the name comes from the file path, and
\* the route summary defaults to it.
AssignName(d, p) ==
    LET named == [d EXCEPT !.name = as_posix(with_suffix(p, <<>>))]
    IN  IF Falsy(named.route_summary)
        THEN [named EXCEPT !.route_summary = named.name]
        ELSE named

-----------------------------------------------------------------------------
(* export_openapi_spec                                                     *)

EmptyDict == [k \in {} |-> <<>>]

NoDefault == <<"<no default>">>

\* fastapi.Header(default, description=...) on a str / Optional[str] argument,
\* as it appears in the operation's "parameters" list: a default of ... makes
\* the parameter required, and neither ... nor None is published as a default.
Header(name, default, description) ==
    [name |-> name,
     in |-> "header",
     required |-> (default = Ellipsis),
     type |-> "string",
     default |-> IF default \in {Ellipsis, None} THEN NoDefault ELSE default,
     description |-> description]

authorization_header_default_value(d) ==
    IF d.requires_authorization THEN Ellipsis ELSE None

consent_header_default_by_authorization(d) ==
    IF d.requires_authorization THEN Ellipsis ELSE None

consent_header_default_value(d) ==
    IF d.requires_consent THEN Ellipsis ELSE None

consent_header_description(d) ==
    IF d.requires_consent THEN <<"Consent token">>
    ELSE <<"Optional consent token">>

\* The parameters of the route function `request`, in declaration order.
HeaderParameters(d) ==
    << Header(<<"x-consent-token">>, consent_header_default_value(d),
              consent_header_description(d)),
       Header(<<"authorization">>, authorization_header_default_value(d),
              <<"The login token. Value should be \"Bearer [token]\"">>),
       Header(<<"x-authorization-provider">>, None,
              <<"The bare domain of the system that provided the token.">>) >>

\* The route path f"/{definition.name}".
RoutePath(d) == <<"/">> \o d.name

\* FastAPI's operationId for a route: the route function's name followed by
\* the path, sanitized, then "_" and the lower-cased method.
FunctionName == <<"r", "e", "q", "u", "e", "s", "t">>

MethodSuffix == <<"_", "p", "o", "s", "t">>

generate_unique_id(d) == sanitize(FunctionName \o RoutePath(d)) \o MethodSuffix

\* The post-processing loop over openapi["paths"].
keep_operation_id(raw) == raw

normalize_operation_id(raw) == removesuffix(raw, MethodSuffix)

\* The keys FastAPI puts into the document, in the order it inserts them.  The
\* single entry of "paths" is kept as the leaf "path"; the operation's fields
\* are leaves of their own.
KeyOrder ==
    << "title", "description", "version", "path", "summary",
       "route_description", "operationId", "requestBody", "parameters",
       "responses" >>

ListKeys == {"parameters"}

\* app.openapi() leaves out a description that is empty or None, and derives
\* a summary from the function name when none is given.
export_openapi_spec(d) ==
    ("title" :> d.summary)
    @@ (IF Falsy(d.description) THEN EmptyDict
        ELSE "description" :> d.description)
    @@ ("version" :> <<"1.0.0">>)
    @@ ("path" :> RoutePath(d))
    @@ ("summary" :> IF Falsy(d.route_summary) THEN <<"Request">>
                     ELSE d.route_summary)
    @@ (IF Falsy(d.route_description) THEN EmptyDict
        ELSE "route_description" :> d.route_description)
    @@ ("operationId" :> normalize_operation_id(generate_unique_id(d)))
    @@ ("requestBody" :> d.request)
    @@ ("parameters" :> HeaderParameters(d))
    @@ ("responses" :> d.response)

\* The header parameter of a document with the given name.
Parameter(doc, name) ==
    CHOOSE h \in Range(doc["parameters"]) : h.name = name

-----------------------------------------------------------------------------
(* Synthesis of one definition: construct, name, export.                   *)

NoDefinition == DataProductDefinition(
    [summary |-> EmptyStr, description |-> None, route_description |-> None,
     route_summary |-> None, requires_authorization |-> FALSE,
     requires_consent |-> FALSE])

PipelineIdle ==
    /\ modules = EmptyDict
    /\ files = EmptyDict
    /\ untracked = {}
    /\ pending = {}
    /\ should_fail_hook = FALSE
    /\ pc = "idle"
    /\ result = "none"
    /\ outcome = EmptyDict
    /\ hooked = {}
    /\ queried = {}
    /\ run = 0
    /\ clean_start = FALSE
    /\ published_earlier = FALSE

SynthInit ==
    /\ kwargs \in KwargsSpace
    /\ artifact \in ArtifactPaths
    /\ definition = NoDefinition
    /\ openapi = EmptyDict
    /\ phase = "new"
    /\ PipelineIdle

Construct ==
    /\ phase = "new"
    /\ definition' = DataProductDefinition(kwargs)
    /\ phase' = "constructed"
    /\ UNCHANGED <<kwargs, artifact, openapi, pipeline_vars>>

Load ==
    /\ phase = "constructed"
    /\ definition' = AssignName(definition, artifact)
    /\ phase' = "named"
    /\ UNCHANGED <<kwargs, artifact, openapi, pipeline_vars>>

Export ==
    /\ phase = "named"
    /\ openapi' = export_openapi_spec(definition)
    /\ phase' = "exported"
    /\ UNCHANGED <<kwargs, artifact, definition, pipeline_vars>>

SynthNext == Construct \/ Load \/ Export

SynthSpec == SynthInit /\ [][SynthNext]_vars

-----------------------------------------------------------------------------
(* json and DeepDiff                                                       *)

NoFile == [exists |-> FALSE, valid |-> FALSE, members |-> <<>>]

JsonFile(members) == [exists |-> TRUE, valid |-> TRUE, members |-> members]

NotJson == [exists |-> TRUE, valid |-> FALSE, members |-> <<>>]

\* json.dumps(openapi, indent=2): the members in the dict's insertion order.
json_dumps(doc) ==
    LET InDoc(k) == k \in DOMAIN doc
        keys == SelectSeq(KeyOrder, InDoc)
    IN  [i \in 1..Len(keys) |-> <<keys[i], doc[keys[i]]>>]

\* json.loads: a dict; of two members with one key the later one stays.
json_loads(members) ==
    LET keys == {members[i][1] : i \in 1..Len(members)}
        At(k) == CHOOSE i \in 1..Len(members) :
                    /\ members[i][1] = k
                    /\ \A j \in 1..Len(members) : members[j][1] = k => j <= i
    IN  [k \in keys |-> members[At(k)][2]]

\* DeepDiff(t1, t2, ignore_order=True): the set of reports.  Dict keys are
\* matched by name.  With ignore_order a list is compared as the set of its
\* items: neither the position of an item nor how often it occurs is reported
\* (report_repetition is off).
DeepDiff(t1, t2) ==
    LET common == DOMAIN t1 \cap DOMAIN t2
    IN  {<<"dictionary_item_added", k>> : k \in DOMAIN t2 \ DOMAIN t1}
        \cup {<<"dictionary_item_removed", k>> : k \in DOMAIN t1 \ DOMAIN t2}
        \cup {<<"values_changed", k>> :
                k \in {c \in common \ ListKeys : t1[c] # t2[c]}}
        \cup {<<"iterable_item_added", k>> :
                k \in {c \in common \cap ListKeys :
                         Range(t2[c]) \ Range(t1[c]) # {}}}
        \cup {<<"iterable_item_removed", k>> :
                k \in {c \in common \cap ListKeys :
                         Range(t1[c]) \ Range(t2[c]) # {}}}

-----------------------------------------------------------------------------
(* convert_data_product_definitions                                        *)

\* The artifacts that may lie under the source root.
SourceFiles == {<<"a", ".py">>, <<".py">>, <<".py", ".py">>}

DefaultKwargs ==
    [summary |-> <<"Foo">>, description |-> None, route_description |-> None,
     route_summary |-> None, requires_authorization |-> FALSE,
     requires_consent |-> FALSE]

\* What importing an artifact gives: a module whose DEFINITION is a
\* DataProductDefinition, a module whose DEFINITION is None, or a module
\* without that attribute.
ModuleContents ==
    { [kind |-> "definition", kw |-> DefaultKwargs],
      [kind |-> "definition",
       kw |-> [DefaultKwargs EXCEPT !.requires_consent = TRUE]],
      [kind |-> "none", kw |-> DefaultKwargs],
      [kind |-> "missing", kw |-> DefaultKwargs] }

\* getattr(module, "DEFINITION") and the check that follows it.
load_definition_unchecked(m) ==
    IF m.kind = "missing" THEN "AttributeError" ELSE "ok"

load_definition(m) ==
    IF m.kind = "missing" THEN "AttributeError"
    ELSE IF m.kind = "none" THEN "ValueError"
    ELSE "ok"

out_file(p) == with_suffix(p, <<".json">>)

\* The document the loop body synthesizes for an artifact with a definition
\* built from the given arguments (lines 117 to 121).
Synthesize(p, kw) ==
    export_openapi_spec(AssignName(DataProductDefinition(kw), p))

\* Synthesize, tabulated once for every artifact and module.
Documents ==
    [p \in SourceFiles, m \in ModuleContents |-> Synthesize(p, m.kw)]

\* The document synthesized for artifact p.
Candidate(p) == Documents[p, modules[p]]

\* current_spec: {} unless out_file exists.
current_spec_unread(f) == EmptyDict

current_spec(f) ==
    IF files[f].exists THEN json_loads(files[f].members) ELSE EmptyDict

\* The condition of the write: DeepDiff(...) != {}.
changed_always(p) == TRUE

changed(p) == DeepDiff(current_spec(out_file(p)), Candidate(p)) # {}

\* out_file.write_text(json.dumps(...)).
write_text(f, doc) == [files EXCEPT ![f] = JsonFile(json_dumps(doc))]

\* run_pre_commit_hooks_on_file: subprocess.run without check, so only a
\* pre-commit that cannot be started raises.
HookEndings == {"passed", "failed", "not_found"}

run_pre_commit_hooks_checked(ending) ==
    IF ending = "passed" THEN "ok"
    ELSE IF ending = "failed" THEN "CalledProcessError"
    ELSE "FileNotFoundError"

run_pre_commit_hooks_on_file(ending) ==
    IF ending = "not_found" THEN "FileNotFoundError" ELSE "ok"

\* file_is_untracked: subprocess.run with check=True, so a git status that
\* exits with an error raises; otherwise the "??" prefix decides.
GitEndings == {"exit_zero", "exit_nonzero"}

file_is_untracked_inverted(f, ending) ==
    IF ending # "exit_zero" THEN "CalledProcessError"
    ELSE IF f \in untracked THEN "False" ELSE "True"

file_is_untracked(f, ending) ==
    IF ending # "exit_zero" THEN "CalledProcessError"
    ELSE IF f \in untracked THEN "True" ELSE "False"

\* The flag after the untracked branch.
flag_after_untracked_kept(flag) == flag

flag_after_untracked(flag) == TRUE

\* What the published file of artifact p may hold before the first run.
PriorFilesOf(p) ==
    LET doc == Synthesize(p, DefaultKwargs)
        text == json_dumps(doc)
        n == Len(text)
        params == doc["parameters"]
        With(k, v) == [i \in 1..n |-> IF text[i][1] = k THEN <<k, v>> ELSE text[i]]
        NotDescription(m) == m[1] # "description"
    IN  { NoFile,
          NotJson,
          JsonFile(text),
          JsonFile([i \in 1..n |-> text[n + 1 - i]]),
          JsonFile(With("parameters",
                        [i \in 1..Len(params) |-> params[Len(params) + 1 - i]])),
          JsonFile(With("parameters", Append(params, params[1]))),
          JsonFile(With("title", <<"Old title">>)),
          JsonFile(SelectSeq(text, NotDescription)) }

PriorFilesTable == [p \in SourceFiles |-> PriorFilesOf(p)]

PriorFiles(p) == PriorFilesTable[p]

OutFiles(tree) == {out_file(p) : p \in tree}

\* Whether every artifact's destination holds exactly its document and is
\* tracked.
FullyPublished ==
    \A p \in DOMAIN modules :
       /\ modules[p].kind = "definition"
       /\ files[out_file(p)].exists
       /\ files[out_file(p)].valid
       /\ json_loads(files[out_file(p)].members) = Candidate(p)
       /\ out_file(p) \notin untracked

SynthIdle ==
    /\ kwargs = DefaultKwargs
    /\ artifact = <<".py">>
    /\ definition = NoDefinition
    /\ openapi = EmptyDict
    /\ phase = "new"

Init ==
    /\ \E tree \in SUBSET SourceFiles :
          /\ Cardinality(tree) <= MaxArtifacts
          /\ modules \in [tree -> ModuleContents]
          /\ files \in {g \in [OutFiles(tree) ->
                                  UNION {PriorFiles(p) : p \in tree}] :
                          \A f \in OutFiles(tree) :
                             \E p \in tree : out_file(p) = f /\ g[f] \in PriorFiles(p)}
          /\ untracked \in SUBSET OutFiles(tree)
          /\ pending = tree
    /\ should_fail_hook = FALSE
    /\ pc = "running"
    /\ result = "none"
    /\ outcome = EmptyDict
    /\ hooked = {}
    /\ queried = {}
    /\ run = 1
    /\ clean_start = FullyPublished
    /\ published_earlier = FALSE
    /\ SynthIdle

Raise(exception) ==
    /\ pc' = "raised"
    /\ result' = exception
    /\ UNCHANGED <<modules, untracked, pending, should_fail_hook, run,
                   clean_start, published_earlier, synth_vars>>

Continue(p) ==
    /\ pending' = pending \ {p}
    /\ UNCHANGED <<modules, untracked, pc, result, run, clean_start,
                   published_earlier, synth_vars>>

\* getattr raises, or `not definition` holds.
DefinitionMissing(p) ==
    /\ pc = "running" /\ p \in pending
    /\ load_definition(modules[p]) # "ok"
    /\ Raise(load_definition(modules[p]))
    /\ UNCHANGED <<files, outcome, hooked, queried>>

\* json.loads raises on an out_file that does not hold JSON.
PublishedFileUnreadable(p) ==
    /\ pc = "running" /\ p \in pending
    /\ load_definition(modules[p]) = "ok"
    /\ files[out_file(p)].exists /\ ~files[out_file(p)].valid
    /\ Raise("JSONDecodeError")
    /\ UNCHANGED <<files, outcome, hooked, queried>>

Readable(p) ==
    /\ pc = "running" /\ p \in pending
    /\ load_definition(modules[p]) = "ok"
    /\ files[out_file(p)].exists => files[out_file(p)].valid

\* The document differs: it is written and the hook is run on it.
ExportFile(p) ==
    /\ Readable(p)
    /\ changed(p)
    /\ \E ending \in HookEndings :
          /\ run_pre_commit_hooks_on_file(ending) = "ok"
          /\ hooked' = hooked \cup {<<p, ending>>}
    /\ files' = write_text(out_file(p), Candidate(p))
    /\ outcome' = (p :> "exported") @@ outcome
    /\ should_fail_hook' = TRUE
    /\ Continue(p)
    /\ UNCHANGED queried

\* The document differs and is written, but pre-commit raises.
ExportFileHookRaises(p) ==
    /\ Readable(p)
    /\ changed(p)
    /\ \E ending \in HookEndings :
          /\ run_pre_commit_hooks_on_file(ending) # "ok"
          /\ hooked' = hooked \cup {<<p, ending>>}
          /\ Raise(run_pre_commit_hooks_on_file(ending))
    /\ files' = write_text(out_file(p), Candidate(p))
    /\ outcome' = (p :> "exported") @@ outcome
    /\ UNCHANGED queried

\* No difference, and git reports the file as untracked.
UntrackedFile(p) ==
    /\ Readable(p)
    /\ ~changed(p)
    /\ \E ending \in GitEndings :
          file_is_untracked(out_file(p), ending) = "True"
    /\ queried' = queried \cup {p}
    /\ outcome' = (p :> "untracked") @@ outcome
    /\ should_fail_hook' = flag_after_untracked(should_fail_hook)
    /\ Continue(p)
    /\ UNCHANGED <<files, hooked>>

\* No difference, and the file is tracked.
SkipFile(p) ==
    /\ Readable(p)
    /\ ~changed(p)
    /\ \E ending \in GitEndings :
          file_is_untracked(out_file(p), ending) = "False"
    /\ queried' = queried \cup {p}
    /\ outcome' = (p :> "skipped") @@ outcome
    /\ Continue(p)
    /\ UNCHANGED <<files, hooked, should_fail_hook>>

\* No difference, and git status exits with an error.
GitStatusRaises(p) ==
    /\ Readable(p)
    /\ ~changed(p)
    /\ \E ending \in GitEndings :
          /\ file_is_untracked(out_file(p), ending) \notin {"True", "False"}
          /\ Raise(file_is_untracked(out_file(p), ending))
    /\ queried' = queried \cup {p}
    /\ outcome' = (p :> "git_failed") @@ outcome
    /\ UNCHANGED <<files, hooked>>

\* The loop is over: return should_fail_hook.
Return ==
    /\ pc = "running" /\ pending = {}
    /\ pc' = "returned"
    /\ result' = IF should_fail_hook THEN "True" ELSE "False"
    /\ UNCHANGED <<modules, files, untracked, pending, should_fail_hook,
                   outcome, hooked, queried, run, clean_start,
                   published_earlier, synth_vars>>

\* convert_data_product_definitions is called again on the same trees.
CallAgain ==
    /\ pc \in {"returned", "raised"}
    /\ run < MaxRuns
    /\ run' = run + 1
    /\ pc' = "running"
    /\ result' = "none"
    /\ pending' = DOMAIN modules
    /\ should_fail_hook' = FALSE
    /\ outcome' = EmptyDict
    /\ hooked' = {}
    /\ queried' = {}
    /\ clean_start' = FullyPublished
    /\ published_earlier' =
          (published_earlier \/ \E p \in DOMAIN outcome : outcome[p] = "exported")
    /\ UNCHANGED <<modules, files, untracked, synth_vars>>

Next ==
    \/ \E p \in SourceFiles : DefinitionMissing(p)
    \/ \E p \in SourceFiles : PublishedFileUnreadable(p)
    \/ \E p \in SourceFiles : ExportFile(p)
    \/ \E p \in SourceFiles : ExportFileHookRaises(p)
    \/ \E p \in SourceFiles : UntrackedFile(p)
    \/ \E p \in SourceFiles : SkipFile(p)
    \/ \E p \in SourceFiles : GitStatusRaises(p)
    \/ Return
    \/ CallAgain

Spec == Init /\ [][Next]_vars

-----------------------------------------------------------------------------
(* Properties of synthesis, checked under SynthSpec.                       *)

\* C7 as stated: no operationId of an exported document ends with the
\* method suffix "_post", and stripping the suffix again changes nothing.
C7_NoOperationIdEndsWithSuffix ==
    phase = "exported" =>
        /\ ~endswith(openapi["operationId"], MethodSuffix)
        /\ removesuffix(openapi["operationId"], MethodSuffix)
              = openapi["operationId"]

\* C7 as amended: exactly one trailing "_post" is removed from the generated
\* operationId, so the published operationId is "request" followed by the
\* sanitized route path; it ends with "_post", and stripping it once more
\* would change it, exactly when the sanitized route path ends with "_post".
C7_ExactlyOneSuffixStripped ==
    phase = "exported" =>
        LET id == openapi["operationId"]
            route == sanitize(<<"/">> \o as_posix(with_suffix(artifact, <<>>)))
        IN  /\ id = FunctionName \o route
            /\ endswith(id, MethodSuffix) <=> endswith(route, MethodSuffix)
            /\ (removesuffix(id, MethodSuffix) = id)
                  <=> ~endswith(route, MethodSuffix)

\* C7 witness: a definition whose name ends in "_post" has been exported and
\* its operationId still ends with the suffix.
C7_Witness ==
    /\ phase = "exported"
    /\ endswith(definition.name, MethodSuffix)
    /\ endswith(openapi["operationId"], MethodSuffix)

\* C9: the consent header is required and described "Consent token" iff
\* requires_consent, else optional without default and described "Optional
\* consent token"; the authorization header is required iff
\* requires_authorization, else optional without default; the provider header
\* is always optional; each flag gates its own header only.
C9_HeaderGating ==
    phase = "exported" =>
        LET consent == Parameter(openapi, <<"x-consent-token">>)
            auth == Parameter(openapi, <<"authorization">>)
            provider == Parameter(openapi, <<"x-authorization-provider">>)
        IN  /\ Len(openapi["parameters"]) = 3
            /\ \A h \in Range(openapi["parameters"]) :
                  h.in = "header" /\ h.type = "string" /\ h.default = NoDefault
            /\ consent.required = kwargs.requires_consent
            /\ consent.description =
                  IF kwargs.requires_consent THEN <<"Consent token">>
                  ELSE <<"Optional consent token">>
            /\ auth.required = kwargs.requires_authorization
            /\ provider.required = FALSE

\* C9 witness: requires_consent without requires_authorization has been
\* exported with a required consent header and an optional authorization
\* header.
C9_Witness ==
    /\ phase = "exported"
    /\ kwargs.requires_consent /\ ~kwargs.requires_authorization
    /\ Parameter(openapi, <<"x-consent-token">>).required
    /\ ~Parameter(openapi, <<"authorization">>).required

-----------------------------------------------------------------------------
(* Properties of the pipeline, checked under Spec.                         *)

\* The step handles artifact p: the loop body got past the loader for it.
Processed(p) == p \notin DOMAIN outcome /\ p \in DOMAIN outcome'

\* The published file of p holds the members of p's document in another order.
KeyOrderOnly(p) ==
    LET text == json_dumps(Candidate(p))
        have == files[out_file(p)]
    IN  /\ have.exists /\ have.valid
        /\ Len(have.members) = Len(text)
        /\ \A i \in 1..Len(text) :
              \E j \in 1..Len(text) :
                 /\ have.members[j][1] = text[i][1]
                 /\ have.members[j][2] = text[i][2]
        /\ have.members # text

\* C1: a destination file is written only if the order-insensitive diff of
\* the published document (empty if absent) and the synthesized one is not
\* empty; a published document that differs only in key order is not
\* rewritten and, when tracked, leaves the changed flag as it was.
C1_WrittenOnlyIfDiffers ==
    [][ /\ files' # files =>
              \E p \in DOMAIN modules :
                 /\ Processed(p) /\ outcome'[p] = "exported"
                 /\ files' = [files EXCEPT ![out_file(p)] =
                                 JsonFile(json_dumps(Candidate(p)))]
        /\ \A p \in DOMAIN modules :
              /\ (Processed(p) /\ outcome'[p] = "exported") =>
                    DeepDiff(IF files[out_file(p)].exists
                             THEN json_loads(files[out_file(p)].members)
                             ELSE EmptyDict,
                             Candidate(p)) # {}
              /\ (Processed(p) /\ KeyOrderOnly(p)) =>
                    /\ files' = files
                    /\ hooked' = hooked
                    /\ outcome'[p] # "exported"
                    /\ (out_file(p) \notin untracked /\ pc' = "running") =>
                          /\ outcome'[p] = "skipped"
                          /\ should_fail_hook' = should_fail_hook
      ]_vars

\* C1 witness: an artifact was skipped whose tracked published file still
\* holds its document in another key order.
C1_Witness ==
    \E p \in DOMAIN outcome :
       /\ outcome[p] = "skipped"
       /\ KeyOrderOnly(p)
       /\ ~should_fail_hook

\* The published file of p holds exactly the document synthesized for p.
ExactlyPublished(p) ==
    /\ files[out_file(p)].exists /\ files[out_file(p)].valid
    /\ json_loads(files[out_file(p)].members) = Candidate(p)

\* C2: a definition whose destination already holds exactly its document is
\* neither written nor passed to the hook and, when tracked, leaves the
\* changed flag as it was; a run that starts on a fully published, tracked
\* set returns False.
C2_IdempotentPublish ==
    /\ [][ \A p \in DOMAIN modules :
              (Processed(p) /\ ExactlyPublished(p)) =>
                 /\ files' = files
                 /\ hooked' = hooked
                 /\ outcome'[p] # "exported"
                 /\ (out_file(p) \notin untracked /\ pc' = "running") =>
                       /\ outcome'[p] = "skipped"
                       /\ should_fail_hook' = should_fail_hook
         ]_vars
    /\ [](pc = "returned" /\ clean_start =>
             /\ result = "False"
             /\ hooked = {}
             /\ \A p \in DOMAIN modules : outcome[p] = "skipped")

\* C2 witness: a second run, after a run that wrote a file, started on a
\* fully published, tracked set and returned False.
C2_Witness ==
    /\ run = 2 /\ pc = "returned"
    /\ clean_start /\ published_earlier
    /\ DOMAIN modules # {}
    /\ result = "False"

\* C3: a run that completes returns True iff some document was written in
\* this run or was found equivalent while untracked, and False exactly when
\* every artifact was already published and tracked (also with no artifact).
C3_ReturnValue ==
    pc = "returned" =>
        /\ DOMAIN outcome = DOMAIN modules
        /\ result \in {"True", "False"}
        /\ result = "True" <=>
              \E p \in DOMAIN modules : outcome[p] \in {"exported", "untracked"}
        /\ result = "False" <=>
              \A p \in DOMAIN modules : outcome[p] = "skipped"

\* C3 witness: a run returned True although it wrote nothing, because a
\* published file is untracked.
C3_Witness ==
    /\ pc = "returned" /\ result = "True"
    /\ hooked = {}
    /\ \E p \in DOMAIN modules : outcome[p] = "untracked"
    /\ \E p \in DOMAIN modules : outcome[p] = "skipped"

\* The step calls pre-commit for p and the call ends as given.
HookCalled(p, ending) == <<p, ending>> \in hooked' \ hooked

\* C4 as stated: a validation hook that fails, or a version-control status
\* query that fails, never aborts the run: the loop goes on.
C4_CollaboratorFailureNeverAborts ==
    [][ \A p \in DOMAIN modules :
           (\/ HookCalled(p, "failed")
            \/ (p \in queried' \ queried /\ p \notin DOMAIN outcome
                /\ outcome'[p] = "git_failed"))
           => pc' = "running"
      ]_vars

\* C4 as amended: a hook that exits with a failure status does not abort the
\* run, and the document stays written; a pre-commit that cannot be started
\* and a git status that exits with an error both abort the run with an
\* exception, and a document written before stays written.
C4_OnlyHookExitStatusIgnored ==
    [][ \A p \in DOMAIN modules :
           LET written == JsonFile(json_dumps(Candidate(p)))
           IN  /\ HookCalled(p, "failed") =>
                     /\ pc' = "running"
                     /\ should_fail_hook'
                     /\ files'[out_file(p)] = written
               /\ HookCalled(p, "not_found") =>
                     /\ pc' = "raised" /\ result' = "FileNotFoundError"
                     /\ files'[out_file(p)] = written
               /\ (Processed(p) /\ outcome'[p] = "git_failed") =>
                     /\ pc' = "raised" /\ result' = "CalledProcessError"
                     /\ files' = files
      ]_vars

\* C4 witness: a run returned its boolean after a hook call that failed.
C4_Witness ==
    /\ pc = "returned" /\ result = "True"
    /\ \E p \in DOMAIN modules :
          /\ <<p, "failed">> \in hooked
          /\ files[out_file(p)] = JsonFile(json_dumps(Candidate(p)))

LacksDefinition(p) == modules[p].kind # "definition"

\* C5: an artifact without DEFINITION (absent or None) halts the run with an
\* error: it and the artifacts after it are never synthesized, written,
\* hooked or queried, no boolean is returned, and the files written for
\* earlier artifacts stay as they are.
C5_MissingDefinitionHalts ==
    /\ [](\A p \in DOMAIN modules :
             LacksDefinition(p) =>
                /\ p \notin DOMAIN outcome
                /\ p \notin queried
                /\ \A e \in HookEndings : <<p, e>> \notin hooked
                /\ pc # "idle" => (pc # "returned" /\ p \in pending))
    /\ [][ (pc = "running" /\ pc' = "raised"
            /\ result' \in {"AttributeError", "ValueError"}) =>
              /\ \E p \in pending :
                    /\ modules[p].kind = "missing" => result' = "AttributeError"
                    /\ modules[p].kind = "none" => result' = "ValueError"
                    /\ LacksDefinition(p)
              /\ files' = files /\ outcome' = outcome
              /\ hooked' = hooked /\ queried' = queried
              /\ pending' = pending
         ]_vars
    /\ [][ pc = "raised" => (pc' = "running" /\ run' = run + 1) ]_vars

\* C5 witness: the run raised ValueError on a module whose DEFINITION is None
\* after it had written the file of an earlier artifact.
C5_Witness ==
    /\ pc = "raised" /\ result = "ValueError"
    /\ \E p \in pending : modules[p].kind = "none"
    /\ \E p \in DOMAIN outcome :
          /\ outcome[p] = "exported"
          /\ files[out_file(p)] = JsonFile(json_dumps(Candidate(p)))

\* The number of times each item occurs in a list.
ItemCounts(list) ==
    [x \in Range(list) |-> Cardinality({i \in 1..Len(list) : list[i] = x})]

\* Two documents have the same keys, the same scalars and lists with the same
\* items the same number of times.
SameContent(t1, t2) ==
    /\ DOMAIN t1 = DOMAIN t2
    /\ \A k \in DOMAIN t1 \cap DOMAIN t2 :
          IF k \in ListKeys THEN ItemCounts(t1[k]) = ItemCounts(t2[k])
          ELSE t1[k] = t2[k]

\* C6: whenever the published and the synthesized document differ in a key
\* or a value (also a list that gained or lost a repeated element), the
\* synthesized document is written.
C6_AnyDifferenceIsWritten ==
    [][ \A p \in DOMAIN modules :
           (Processed(p)
            /\ ~SameContent(IF files[out_file(p)].exists
                            THEN json_loads(files[out_file(p)].members)
                            ELSE EmptyDict,
                            Candidate(p)))
           => outcome'[p] = "exported"
      ]_vars

\* C8: an equivalent document whose file is untracked is neither written nor
\* hooked, yet sets the changed flag; git status is queried only for
\* artifacts whose document was not written.
C8_UntrackedSurfacing ==
    /\ [][ \A p \in DOMAIN modules :
              (/\ Processed(p)
               /\ files[out_file(p)].exists
               /\ DeepDiff(json_loads(files[out_file(p)].members),
                           Candidate(p)) = {}
               /\ out_file(p) \in untracked
               /\ pc' = "running")
              => /\ outcome'[p] = "untracked"
                 /\ files' = files
                 /\ hooked' = hooked
                 /\ should_fail_hook'
                 /\ p \in queried'
         ]_vars
    /\ [](\A p \in DOMAIN outcome :
             /\ outcome[p] = "exported" => p \notin queried
             /\ outcome[p] # "exported" => p \in queried)

\* C8 witness: the only artifact processed so far was found untracked: no
\* hook was called and the changed flag is set.
C8_Witness ==
    /\ pc = "running"
    /\ should_fail_hook
    /\ hooked = {}
    /\ \E p \in DOMAIN modules :
          /\ DOMAIN outcome = {p}
          /\ outcome[p] = "untracked"
          /\ queried = {p}

\* C10: distinct artifacts have destination files of their own, so after a
\* run without error every artifact's destination holds a document
\* equivalent to the one synthesized for it, whatever the order in which the
\* artifacts were processed.
C10_OwnDestinationAfterRun ==
    pc = "returned" =>
        \A p \in DOMAIN modules :
           DeepDiff(json_loads(files[out_file(p)].members), Candidate(p)) = {}

=============================================================================
